---- MODULE Spec2Model ----
(***************************************************************************)
(* Model of the extract-then-upload pipeline of gcs_uploader.py (main,     *)
(* process_tar_file, extract_with_system_tar, ensure_gcloud_installed) and *)
(* of the download script main.py (classify_files, extract_tar_archive,    *)
(* extract_tar_archives, run_gcloud_storage_upload, main). A behaviour is  *)
(* a run of one of the two scripts: Spec runs gcs_uploader.py,             *)
(* DownloadSpec runs main.py.                                              *)
(*                                                                         *)
(* Paths are sequences of one-character strings, so that the character-    *)
(* wise os.path.commonprefix and the component-wise Path.relative_to are   *)
(* computed as the library computes them and can disagree.                 *)
(***************************************************************************)
EXTENDS Integers, Sequences, FiniteSets, TLC

(***************************************************************************)
(* Bounds of the model                                                     *)
(***************************************************************************)
\* largest number of archives glob.glob may discover
MaxFiles == 2
\* number of distinct values str(uuid.uuid4())[:8] may take
NumIds == 2
\* largest pool size a run is configured with (the source sets
\* MAX_WORKERS = 4; the runs of the model take every size up to MaxPool, so
\* that the submitted calls can outnumber the workers)
MaxPool == 2
\* largest number of files api.list_repo_files may return
MaxRepo == 2

(***************************************************************************)
(* Path strings                                                            *)
(***************************************************************************)
Min(a, b) == IF a <= b THEN a ELSE b

\* str.startswith("/") : os.path.isabs on POSIX
isabs(p) == Len(p) > 0 /\ p[1] = "/"

\* os.path.join(a, b) on POSIX, two arguments
join(a, b) ==
    IF isabs(b) THEN b
    ELSE IF Len(a) = 0 \/ a[Len(a)] = "/" THEN a \o b
    ELSE a \o <<"/">> \o b

\* p.split("/") : the components between the separators, empty ones included
RECURSIVE SplitFrom(_, _, _)
SplitFrom(p, i, cur) ==
    IF i > Len(p) THEN <<cur>>
    ELSE IF p[i] = "/" THEN <<cur>> \o SplitFrom(p, i + 1, <<>>)
    ELSE SplitFrom(p, i + 1, Append(cur, p[i]))

split(p) == SplitFrom(p, 1, <<>>)

\* the loop of posixpath.normpath over the components: "" and "." are
\* dropped, ".." pops the last component kept (and is dropped at the root of
\* an absolute path)
RECURSIVE NormComps(_, _, _)
NormComps(comps, i, acc) ==
    IF i > Len(comps) THEN acc
    ELSE LET c == comps[i] IN
         IF c = <<>> \/ c = <<".">> THEN NormComps(comps, i + 1, acc)
         ELSE IF c = <<".", ".">> THEN
              NormComps(comps, i + 1,
                        IF Len(acc) > 0 THEN SubSeq(acc, 1, Len(acc) - 1) ELSE acc)
         ELSE NormComps(comps, i + 1, Append(acc, c))

\* "/".join(comps) with the leading slash of an absolute path
RECURSIVE JoinComps(_, _)
JoinComps(comps, i) ==
    IF i > Len(comps) THEN <<>>
    ELSE <<"/">> \o comps[i] \o JoinComps(comps, i + 1)

\* the current working directory of the process (os.getcwd())
CWD == <<"/">>

\* os.path.abspath(p) = normpath(join(os.getcwd(), p)); every path the
\* pipeline builds is absolute
abspath(p) ==
    LET comps == NormComps(split(join(CWD, p)), 1, <<>>)
    IN  IF Len(comps) = 0 THEN <<"/">> ELSE JoinComps(comps, 1)

\* os.path.commonprefix([a, b]) : the longest common leading run of
\* CHARACTERS of the two strings
RECURSIVE CommonLen(_, _, _)
CommonLen(a, b, i) ==
    IF i > Min(Len(a), Len(b)) THEN i - 1
    ELSE IF a[i] # b[i] THEN i - 1
    ELSE CommonLen(a, b, i + 1)

commonprefix(a, b) == SubSeq(a, 1, CommonLen(a, b, 1))

\* gcs_uploader.py process_tar_file.is_within_directory
is_within_directory(directory, target) ==
    LET abs_directory == abspath(directory)
        abs_target == abspath(target)
        prefix == commonprefix(abs_directory, abs_target)
    IN  prefix = abs_directory

\* Path(p).resolve().parts without the root (no symbolic links in the model)
parts(p) == NormComps(split(join(CWD, p)), 1, <<>>)

\* main.py ensure_path_is_within: TRUE when relative_to succeeds (no raise),
\* i.e. the parts of base_dir are a leading run of the parts of target_path
ensure_path_is_within(base_dir, target_path) ==
    LET b == parts(base_dir)
        t == parts(target_path)
    IN  Len(b) <= Len(t) /\ SubSeq(t, 1, Len(b)) = b

(***************************************************************************)
(* Configuration and inputs                                                *)
(***************************************************************************)
\* TEMP_BASE_DIR = os.path.join(os.getcwd(), "temp_extraction_work")
TEMP_BASE_DIR == join(CWD, <<"t">>)

Digit == <<"1", "2", "3", "4", "5", "6", "7", "8", "9">>

\* the values of str(uuid.uuid4())[:8]: a random token cut to 32 bits, one
\* character standing for the eight
Ids == 1..NumIds

\* temp_dir = os.path.join(TEMP_BASE_DIR, unique_id)
temp_dir(id) == join(TEMP_BASE_DIR, <<Digit[id]>>)

\* archives on disk, by member names in archive order:
\*   a, b              only contained members
\*   a, ../1x/f, ../e  a contained member, one landing in the directory
\*                     "1x" beside the workspace "1", one landing in the
\*                     staging root
\*   ../1x/f           only the member landing in "1x"
\*   /e, a             an absolute member name, then a contained member
ArchiveKinds ==
    << << <<"a">>, <<"b">> >>,
       << <<"a">>, <<".", ".", "/", "1", "x", "/", "f">>,
          <<".", ".", "/", "e">> >>,
       << <<".", ".", "/", "1", "x", "/", "f">> >>,
       << <<"/", "e">>, <<"a">> >> >>

\* the members of the archive at tar_path f (the f-th path glob.glob returns)
Members(f) == ArchiveKinds[((f - 1) % Len(ArchiveKinds)) + 1]

Jobs == 1..MaxFiles

(***************************************************************************)
(* State                                                                   *)
(***************************************************************************)
VARIABLES
    mpc,         \* position of main()
    gcloud,      \* shutil.which("gcloud") is not None
    DRY_RUN,     \* the DRY_RUN setting of the run
    MAX_WORKERS, \* the MAX_WORKERS setting of the run
    files,       \* main's list "files" (tar paths, numbered in glob order)
    total_files, \* main's total_files
    base,        \* TEMP_BASE_DIR exists on disk
    dirs,        \* ids whose directory TEMP_BASE_DIR/<id> exists on disk
    job,         \* per submitted tar path: the call process_tar_file(f)
    successful,  \* main's counter
    failed       \* main's counter

\* the state of a run of main.py
VARIABLES
    dpc,           \* position of main.py's main()
    keep_archives, \* args.keep_archives
    gcs_dest,      \* a destination was given with --gcloud
    cpu_count,     \* os.cpu_count()
    repo_files,    \* what api.list_repo_files returned
    parquet_files, \* first list returned by classify_files
    tar_files,     \* second list returned by classify_files
    arch,          \* per entry of tar_files: the archive and its extraction
    upload         \* how the gcloud storage cp of main.py ended

dlvars == <<dpc, keep_archives, gcs_dest, cpu_count, repo_files, parquet_files,
            tar_files, arch, upload>>

upvars == <<mpc, gcloud, DRY_RUN, MAX_WORKERS, files, total_files, base, dirs, job,
            successful, failed>>

vars == <<upvars, dlvars>>

\* a call of process_tar_file that has not been submitted
\*   unique_id  the workspace name drawn (0: none yet)
\*   attempts   the extraction calls made so far, in order
\*   wrote      how many members the latest extraction call wrote to disk
\*   pub        how the remote copy ended ("rc0", "rcN", "raised")
\*   ret        the value of the return statement executed; it is the
\*              call's outcome unless the finally block raises ("exc")
NoJob == [pc |-> "idle", unique_id |-> 0, ret |-> "none",
          attempts |-> <<>>, wrote |-> 0, pub |-> "none"]

\* an archive of tar_files that is not downloaded yet
\*   content  0: the file is not on disk; k > 0: the file is on disk and
\*            holds the members ArchiveKinds[k]
\*   wrote    how many members the extraction wrote
\*   outcome  how the call extract_tar_archive ended ("ok", "raised")
NoArchive == [pc |-> "idle", content |-> 0, wrote |-> 0, outcome |-> "none"]

\* main.py is not run
DownloadNotRun ==
    /\ dpc = "start"
    /\ keep_archives = FALSE
    /\ gcs_dest = FALSE
    /\ cpu_count = 1
    /\ repo_files = <<>>
    /\ parquet_files = <<>>
    /\ tar_files = <<>>
    /\ arch = <<>>
    /\ upload = "none"

Init ==
    /\ DownloadNotRun
    /\ mpc = "start"
    /\ gcloud \in BOOLEAN
    /\ DRY_RUN \in BOOLEAN
    /\ MAX_WORKERS \in 1..MaxPool
    /\ files = <<>>
    /\ total_files = 0
    /\ base = FALSE
    /\ dirs = {}
    /\ job = [j \in Jobs |-> NoJob]
    /\ successful = 0
    /\ failed = 0

\* the calls a worker thread of the pool is executing
Running == {j \in Jobs : job[j].pc \in {"mkdir", "primary", "fallback",
                                         "publish", "finally"}}

\* the futures that are done (an outcome is stored in them)
Done == {j \in Jobs : job[j].pc \in {"done", "collected"}}

Submitted == {j \in Jobs : job[j].pc # "idle"}

(***************************************************************************)
(* process_tar_file(tar_path), one action per step of the call             *)
(***************************************************************************)
\* the value the call is about to return is kept while "finally" runs
Leave(j, value) == [job EXCEPT ![j].pc = "finally", ![j].ret = value]

\* WorkerStart with the pool bound dropped: a thread per submitted call
WorkerStart_Unbounded(j) ==
    /\ job[j].pc = "queued"
    /\ \A i \in Jobs : i < j => job[i].pc # "queued"
    /\ \E id \in Ids :
           job' = [job EXCEPT ![j].pc = "mkdir", ![j].unique_id = id]
    /\ UNCHANGED <<mpc, gcloud, DRY_RUN, MAX_WORKERS, files, total_files, base, dirs,
                   successful, failed,
                   dlvars>>

\* WorkerStart with pending calls cancelled once a call has failed
WorkerStart_CancelOnFailure(j) ==
    /\ job[j].pc = "queued"
    /\ \A i \in Jobs : i < j => job[i].pc # "queued"
    /\ Cardinality(Running) < MAX_WORKERS
    /\ failed = 0
    /\ \A i \in Jobs : job[i].ret \notin {"False", "exc"}
    /\ \E id \in Ids :
           job' = [job EXCEPT ![j].pc = "mkdir", ![j].unique_id = id]
    /\ UNCHANGED <<mpc, gcloud, DRY_RUN, MAX_WORKERS, files, total_files, base, dirs,
                   successful, failed,
                   dlvars>>

\* a worker thread of the pool takes the next queued call (the work queue
\* is first in, first out) and runs lines 84-85: the workspace name is the
\* first eight characters of a fresh uuid4
WorkerStart(j) ==
    /\ job[j].pc = "queued"
    /\ \A i \in Jobs : i < j => job[i].pc # "queued"
    /\ Cardinality(Running) < MAX_WORKERS
    /\ \E id \in Ids :
           job' = [job EXCEPT ![j].pc = "mkdir", ![j].unique_id = id]
    /\ UNCHANGED <<mpc, gcloud, DRY_RUN, MAX_WORKERS, files, total_files, base, dirs,
                   successful, failed,
                   dlvars>>

\* lines 87-99: os.makedirs(temp_dir, exist_ok=True); an OSError is caught
\* by "except Exception" (lines 154-156), which returns False
Makedirs(j) ==
    /\ job[j].pc = "mkdir"
    /\ \/ /\ dirs' = dirs \cup {job[j].unique_id}
          /\ job' = [job EXCEPT ![j].pc = "primary"]
       \/ /\ dirs' = dirs
          /\ job' = Leave(j, "False")
    /\ UNCHANGED <<mpc, gcloud, DRY_RUN, MAX_WORKERS, files, total_files, base,
                   successful, failed,
                   dlvars>>

\* what one run of the external command "tar -xf tar_path -C dest_dir" can
\* do: exit 0 having written every member, exit non-zero having written
\* some leading members, or fail to start (subprocess.run raises, written
\* rc = -1). With a missing dest_dir tar exits non-zero and writes nothing.
TarOutcomes(f, dest) ==
    IF dest \in dirs
    THEN {[rc |-> 0, wrote |-> Len(Members(f))]}
         \cup {[rc |-> 2, wrote |-> k] : k \in 0..Len(Members(f))}
         \cup {[rc |-> -1, wrote |-> 0]}
    ELSE {[rc |-> 2, wrote |-> 0], [rc |-> -1, wrote |-> 0]}

\* extract_with_system_tar(tar_path, dest_dir), lines 43-69: True exactly
\* when the command exits 0; no member name is looked at
extract_with_system_tar(o) == o.rc = 0

\* SystemTar with the result of the primary extraction ignored: the
\* in-process extractor always runs after it
SystemTar_AlwaysFallback(j) ==
    /\ job[j].pc = "primary"
    /\ \E o \in TarOutcomes(j, job[j].unique_id) :
         LET ok == extract_with_system_tar(o)
             att == [method |-> "system_tar", tar |-> j,
                     dest |-> job[j].unique_id, ok |-> ok]
         IN  job' = [job EXCEPT ![j].attempts = Append(@, att),
                                ![j].wrote = o.wrote,
                                ![j].pc = "fallback"]
    /\ UNCHANGED <<mpc, gcloud, DRY_RUN, MAX_WORKERS, files, total_files, base, dirs,
                   successful, failed,
                   dlvars>>

\* line 103 with lines 106 and 128: the primary extraction and the branch
\* on extraction_success
SystemTar(j) ==
    /\ job[j].pc = "primary"
    /\ \E o \in TarOutcomes(j, job[j].unique_id) :
         LET ok == extract_with_system_tar(o)
             att == [method |-> "system_tar", tar |-> j,
                     dest |-> job[j].unique_id, ok |-> ok]
         IN  job' = [job EXCEPT ![j].attempts = Append(@, att),
                                ![j].wrote = o.wrote,
                                ![j].pc = IF ok THEN "publish" ELSE "fallback"]
    /\ UNCHANGED <<mpc, gcloud, DRY_RUN, MAX_WORKERS, files, total_files, base, dirs,
                   successful, failed,
                   dlvars>>

\* safe_members, lines 116-121, driven by tar.extractall, line 123: the
\* generator is consumed lazily, so every member that precedes the first
\* rejected one has been extracted when the exception is raised. The value
\* is the number of members written.
RECURSIVE safe_members(_, _, _)
safe_members(dest, members, i) ==
    IF i > Len(members) THEN Len(members)
    ELSE IF ~is_within_directory(dest, join(dest, members[i])) THEN i - 1
    ELSE safe_members(dest, members, i + 1)

\* Fallback with the upload attempted whatever the extraction yielded (the
\* "return False" of lines 124-126 dropped)
Fallback_PublishAnyway(j) ==
    /\ job[j].pc = "fallback"
    /\ LET id == job[j].unique_id
           n == safe_members(temp_dir(id), Members(j), 1)
           att(ok) == [method |-> "tarfile", tar |-> j, dest |-> id, ok |-> ok]
       IN  /\ job' = [job EXCEPT
                        ![j].attempts = Append(@, att(n = Len(Members(j)))),
                        ![j].wrote = n,
                        ![j].pc = "publish"]
           /\ dirs' = IF n > 0 THEN dirs \cup {id} ELSE dirs
    /\ UNCHANGED <<mpc, gcloud, DRY_RUN, MAX_WORKERS, files, total_files, base,
                   successful, failed,
                   dlvars>>

\* lines 106-126: the in-process fallback. tarfile.open may raise (the
\* archive is unreadable); otherwise members are extracted until
\* safe_members raises. Any exception returns False (lines 124-126).
\* extractall creates a missing destination for the members it writes.
Fallback(j) ==
    /\ job[j].pc = "fallback"
    /\ LET id == job[j].unique_id
           n == safe_members(temp_dir(id), Members(j), 1)
           att(ok) == [method |-> "tarfile", tar |-> j, dest |-> id, ok |-> ok]
       IN  \/ /\ job' = [Leave(j, "False") EXCEPT
                            ![j].attempts = Append(@, att(FALSE)),
                            ![j].wrote = 0]
              /\ dirs' = dirs
           \/ /\ n = Len(Members(j))
              /\ job' = [job EXCEPT ![j].attempts = Append(@, att(TRUE)),
                                    ![j].wrote = n,
                                    ![j].pc = "publish"]
              /\ dirs' = dirs \cup {id}
           \/ /\ n < Len(Members(j))
              /\ job' = [Leave(j, "False") EXCEPT
                            ![j].attempts = Append(@, att(FALSE)),
                            ![j].wrote = n]
              /\ dirs' = IF n > 0 THEN dirs \cup {id} ELSE dirs
    /\ UNCHANGED <<mpc, gcloud, DRY_RUN, MAX_WORKERS, files, total_files, base,
                   successful, failed,
                   dlvars>>

\* what subprocess.run(upload_cmd, cwd=temp_dir) can do: raise when the
\* working directory is missing or the command cannot be started, else
\* complete with exit status zero or non-zero
PublishOutcomes(id) ==
    IF id \in dirs THEN {"rc0", "rcN", "raised"} ELSE {"raised"}

\* lines 139-152: result.returncode is not looked at (the check at lines
\* 147-149 is commented out), so a completed command returns True; an
\* exception is caught at lines 154-156 and returns False
upload_result(outcome) == IF outcome = "raised" THEN "False" ELSE "True"

Publish(j) ==
    /\ job[j].pc = "publish"
    /\ \E o \in PublishOutcomes(job[j].unique_id) :
           job' = [Leave(j, upload_result(o)) EXCEPT ![j].pub = o]
    /\ UNCHANGED <<mpc, gcloud, DRY_RUN, MAX_WORKERS, files, total_files, base, dirs,
                   successful, failed,
                   dlvars>>

\* the future of a finished call: only the outcome is kept, the frame of
\* the call with its locals is gone
Finished(outcome) == [NoJob EXCEPT !.pc = "done", !.ret = outcome]

\* Finally with the cleanup on the success path only (the rmtree placed
\* after the upload instead of in a finally block)
Finally_SuccessOnly(j) ==
    /\ job[j].pc = "finally"
    /\ LET id == job[j].unique_id
       IN  IF id \notin dirs \/ job[j].ret = "False"
           THEN /\ dirs' = dirs
                /\ job' = [job EXCEPT ![j] = Finished(job[j].ret)]
           ELSE \/ /\ dirs' = dirs \ {id}
                   /\ job' = [job EXCEPT ![j] = Finished(job[j].ret)]
                \/ /\ dirs' = dirs
                   /\ job' = [job EXCEPT ![j] = Finished("exc")]
    /\ UNCHANGED <<mpc, gcloud, DRY_RUN, MAX_WORKERS, files, total_files, base,
                   successful, failed,
                   dlvars>>

\* lines 158-161, the finally block, and the end of the call. When
\* os.path.exists(temp_dir) is false the call returns the pending value;
\* otherwise shutil.rmtree(temp_dir) either removes the directory, and the
\* call returns the pending value, or raises (the directory cannot be
\* removed, or went away under it), and the exception replaces the pending
\* return value and leaves process_tar_file. The worker stores the outcome
\* in the future.
Finally(j) ==
    /\ job[j].pc = "finally"
    /\ LET id == job[j].unique_id
       IN  IF id \notin dirs
           THEN /\ dirs' = dirs
                /\ job' = [job EXCEPT ![j] = Finished(job[j].ret)]
           ELSE \/ /\ dirs' = dirs \ {id}
                   /\ job' = [job EXCEPT ![j] = Finished(job[j].ret)]
                \/ /\ dirs' = dirs
                   /\ job' = [job EXCEPT ![j] = Finished("exc")]
    /\ UNCHANGED <<mpc, gcloud, DRY_RUN, MAX_WORKERS, files, total_files, base,
                   successful, failed,
                   dlvars>>

(***************************************************************************)
(* main()                                                                  *)
(***************************************************************************)
\* ensure_gcloud_installed with the result of shutil.which ignored
ensure_gcloud_unchecked ==
    /\ mpc = "start"
    /\ mpc' = "setup"
    /\ UNCHANGED <<gcloud, DRY_RUN, MAX_WORKERS, files, total_files, base, dirs, job,
                   successful, failed,
                   dlvars>>

\* ensure_gcloud_installed(), lines 72-75, called at line 164
ensure_gcloud_installed ==
    /\ mpc = "start"
    /\ mpc' = IF gcloud THEN "setup" ELSE "fatal"
    /\ UNCHANGED <<gcloud, DRY_RUN, MAX_WORKERS, files, total_files, base, dirs, job,
                   successful, failed,
                   dlvars>>

\* lines 167-168
SetupTemp ==
    /\ mpc = "setup"
    /\ base' = TRUE
    /\ mpc' = "scan"
    /\ UNCHANGED <<gcloud, DRY_RUN, MAX_WORKERS, files, total_files, dirs, job,
                   successful, failed,
                   dlvars>>

\* files[:2]
Take2(s) == SubSeq(s, 1, Min(2, Len(s)))

\* lines 170-183: glob.glob finds n archives; with none, main returns; with
\* DRY_RUN the list is cut to files[:2] and total_files is set to 2
Scan ==
    /\ mpc = "scan"
    /\ \E n \in 0..MaxFiles :
         LET found == [i \in 1..n |-> i]
         IN  IF n = 0
             THEN /\ files' = found
                  /\ total_files' = 0
                  /\ mpc' = "returned"
             ELSE /\ files' = IF DRY_RUN THEN Take2(found) ELSE found
                  /\ total_files' = IF DRY_RUN THEN 2 ELSE n
                  /\ mpc' = "submit"
    /\ UNCHANGED <<gcloud, DRY_RUN, MAX_WORKERS, base, dirs, job, successful, failed,
                   dlvars>>

\* lines 196-201: the counters are reset and every file is submitted
Submit ==
    /\ mpc = "submit"
    /\ successful' = 0
    /\ failed' = 0
    /\ job' = [j \in Jobs |->
                 IF j \in {files[i] : i \in 1..Len(files)}
                 THEN [job[j] EXCEPT !.pc = "queued"] ELSE job[j]]
    /\ mpc' = "collect"
    /\ UNCHANGED <<gcloud, DRY_RUN, MAX_WORKERS, files, total_files, base, dirs,
                   dlvars>>

\* Collect with the else branch of lines 211-212 dropped: a False outcome
\* is not counted
Collect_SkipFailed(j) ==
    /\ mpc = "collect"
    /\ job[j].pc = "done"
    /\ job[j].ret \in {"True", "False"}
    /\ successful' = IF job[j].ret = "True" THEN successful + 1 ELSE successful
    /\ failed' = failed
    /\ job' = [job EXCEPT ![j].pc = "collected", ![j].ret = "none"]
    /\ UNCHANGED <<mpc, gcloud, DRY_RUN, MAX_WORKERS, files, total_files, base, dirs,
                   dlvars>>

\* lines 208-212: as_completed yields a finished future whose call returned
Collect(j) ==
    /\ mpc = "collect"
    /\ job[j].pc = "done"
    /\ job[j].ret \in {"True", "False"}
    /\ IF job[j].ret = "True"
       THEN successful' = successful + 1 /\ failed' = failed
       ELSE failed' = failed + 1 /\ successful' = successful
    /\ job' = [job EXCEPT ![j].pc = "collected", ![j].ret = "none"]
    /\ UNCHANGED <<mpc, gcloud, DRY_RUN, MAX_WORKERS, files, total_files, base, dirs,
                   dlvars>>

\* line 209: future.result() re-raises the exception of a call that raised;
\* nothing in main catches it, so control leaves the for loop
CollectRaise(j) ==
    /\ mpc = "collect"
    /\ job[j].pc = "done"
    /\ job[j].ret = "exc"
    /\ mpc' = "unwinding"
    /\ UNCHANGED <<gcloud, DRY_RUN, MAX_WORKERS, files, total_files, base, dirs, job,
                   successful, failed,
                   dlvars>>

\* line 199: leaving the with block calls executor.shutdown(wait=True); the
\* pool runs every submitted call before it returns
PoolExit ==
    /\ mpc \in {"collect", "unwinding"}
    /\ Submitted \subseteq Done
    /\ mpc = "collect" => \A j \in Submitted : job[j].pc = "collected"
    /\ mpc' = IF mpc = "collect" THEN "cleanup" ELSE "crashed"
    /\ UNCHANGED <<gcloud, DRY_RUN, MAX_WORKERS, files, total_files, base, dirs, job,
                   successful, failed,
                   dlvars>>

\* FinalCleanup placed before the pool has drained: the staging root is
\* removed as soon as the calls are submitted
FinalCleanup_Early ==
    /\ mpc \in {"collect", "cleanup"}
    /\ base' = FALSE
    /\ dirs' = {}
    /\ mpc' = "summary"
    /\ UNCHANGED <<gcloud, DRY_RUN, MAX_WORKERS, files, total_files, job, successful, failed,
                   dlvars>>

\* lines 214-221: the staging root is removed with everything under it and
\* the summary is printed
FinalCleanup ==
    /\ mpc = "cleanup"
    /\ base' = FALSE
    /\ dirs' = {}
    /\ mpc' = "summary"
    /\ UNCHANGED <<gcloud, DRY_RUN, MAX_WORKERS, files, total_files, job, successful, failed,
                   dlvars>>

Next ==
    \/ ensure_gcloud_installed
    \/ SetupTemp
    \/ Scan
    \/ Submit
    \/ \E j \in Jobs : WorkerStart(j)
    \/ \E j \in Jobs : Makedirs(j)
    \/ \E j \in Jobs : SystemTar(j)
    \/ \E j \in Jobs : Fallback(j)
    \/ \E j \in Jobs : Publish(j)
    \/ \E j \in Jobs : Finally(j)
    \/ \E j \in Jobs : Collect(j)
    \/ \E j \in Jobs : CollectRaise(j)
    \/ PoolExit
    \/ FinalCleanup

Spec == Init /\ [][Next]_vars

\* the worker threads are scheduled and the external commands terminate
FairSpec == Spec /\ WF_vars(Next)

(***************************************************************************)
(* main.py: classify_files                                                 *)
(***************************************************************************)
\* repository paths as sequences of tokens: "." and "/" are the separator
\* characters, every other token stands for a run of other characters
RepoNames ==
    { <<"a">>,
      <<"a", ".", "gz">>,
      <<"a", ".", "parquet">>,
      <<"a", ".", "tar">>,
      <<"a", ".", "tar", ".", "gz">>,
      <<"a", ".", "b", ".", "tar">>,
      <<"a", ".", "parquet", ".", "tar">>,
      <<"d", ".", "tar", "/", "a">> }

\* the lists api.list_repo_files may return: distinct paths, in any order
RepoLists ==
    UNION { {l \in [1..n -> RepoNames] :
                \A x, y \in 1..n : x # y => l[x] # l[y]} : n \in 0..MaxRepo }

PARQUET_SUFFIXES == { <<".", "parquet">> }

TAR_SUFFIXES ==
    { <<".", "tar">>, <<".", "tar", ".", "gz">>, <<".", "tgz">>,
      <<".", "tar", ".", "bz2">>, <<".", "tar", ".", "xz">> }

\* PurePath.name: the final component of the path
path_name(p) == LET c == split(p) IN c[Len(c)]

\* str.lstrip(".")
RECURSIVE lstrip_dots(_)
lstrip_dots(n) ==
    IF Len(n) > 0 /\ n[1] = "." THEN lstrip_dots(Tail(n)) ELSE n

\* str.split(".")
RECURSIVE SplitDots(_, _, _)
SplitDots(n, i, cur) ==
    IF i > Len(n) THEN <<cur>>
    ELSE IF n[i] = "." THEN <<cur>> \o SplitDots(n, i + 1, <<>>)
    ELSE SplitDots(n, i + 1, Append(cur, n[i]))

\* PurePath.suffixes: none for a name ending in "."; else the leading dots
\* are stripped and every piece after the first, with its dot, is a suffix
suffixes(p) ==
    LET n == path_name(p) IN
    IF Len(n) = 0 \/ n[Len(n)] = "." THEN <<>>
    ELSE LET pieces == SplitDots(lstrip_dots(n), 1, <<>>)
         IN  [k \in 1..(Len(pieces) - 1) |-> <<".">> \o pieces[k + 1]]

\* line 66: any(suffix in PARQUET_SUFFIXES for suffix in suffixes)
has_parquet_suffix(sfx) == \E k \in 1..Len(sfx) : sfx[k] \in PARQUET_SUFFIXES

\* line 70
merged_suffix(sfx) ==
    IF Len(sfx) >= 2 THEN sfx[Len(sfx) - 1] \o sfx[Len(sfx)] ELSE sfx[Len(sfx)]

\* line 71
has_tar_suffix(sfx) ==
    merged_suffix(sfx) \in TAR_SUFFIXES \/ sfx[Len(sfx)] \in TAR_SUFFIXES

\* the loop of classify_files, lines 61-72, from the i-th file on
RECURSIVE classify_from(_, _, _, _)
classify_from(repo, i, pq, tr) ==
    IF i > Len(repo) THEN [parquet_files |-> pq, tar_files |-> tr]
    ELSE LET sfx == suffixes(repo[i]) IN
         IF sfx = <<>> THEN classify_from(repo, i + 1, pq, tr)
         ELSE IF has_parquet_suffix(sfx)
              THEN classify_from(repo, i + 1, Append(pq, repo[i]), tr)
         ELSE IF has_tar_suffix(sfx)
              THEN classify_from(repo, i + 1, pq, Append(tr, repo[i]))
         ELSE classify_from(repo, i + 1, pq, tr)

\* classify_files(repo_files), lines 57-74
classify_files(repo) == classify_from(repo, 1, <<>>, <<>>)

(***************************************************************************)
(* main.py: main, extract_tar_archives, extract_tar_archive                *)
(***************************************************************************)
\* gcs_uploader.py is not run
UploaderNotRun ==
    /\ mpc = "start"
    /\ gcloud = FALSE
    /\ DRY_RUN = FALSE
    /\ MAX_WORKERS = 1
    /\ files = <<>>
    /\ total_files = 0
    /\ base = FALSE
    /\ dirs = {}
    /\ job = [j \in Jobs |-> NoJob]
    /\ successful = 0
    /\ failed = 0

DownloadInit ==
    /\ UploaderNotRun
    /\ dpc = "start"
    /\ keep_archives \in BOOLEAN
    /\ gcs_dest \in BOOLEAN
    /\ cpu_count \in 1..MaxPool
    /\ repo_files = <<>>
    /\ parquet_files = <<>>
    /\ tar_files = <<>>
    /\ arch = <<>>
    /\ upload = "none"

\* extraction_path = f"{home_folder}/Dataset/{dataset_name}", one character
\* standing for the path below the root
extraction_path == join(CWD, <<"1">>)

Archives == 1..Len(arch)

\* the calls of extract_tar_archive a worker thread is executing
Extracting == {i \in Archives : arch[i].pc = "running"}

\* the futures of extract_tar_archives that are done
Extracted == {i \in Archives : arch[i].pc \in {"done", "collected"}}

\* lines 160-178: the repository is listed and classified; with neither a
\* parquet file nor an archive main exits with status 1
ListAndClassify ==
    /\ dpc = "start"
    /\ \E l \in RepoLists :
         LET c == classify_files(l)
         IN  /\ repo_files' = l
             /\ parquet_files' = c.parquet_files
             /\ tar_files' = c.tar_files
             /\ dpc' = IF c.parquet_files = <<>> /\ c.tar_files = <<>>
                       THEN "exit1" ELSE "download"
    /\ UNCHANGED <<keep_archives, gcs_dest, cpu_count, arch, upload, upvars>>

\* lines 180-186: download_assets either raises (snapshot_download fails) or
\* returns; afterwards each archive of tar_files is on disk with some
\* members, or is not on disk
download_assets ==
    /\ dpc = "download"
    /\ \/ /\ dpc' = "crashed"
          /\ arch' = arch
       \/ /\ dpc' = "extract"
          /\ \E c \in [1..Len(tar_files) -> 0..Len(ArchiveKinds)] :
                arch' = [i \in 1..Len(tar_files) |->
                            [NoArchive EXCEPT !.content = c[i]]]
    /\ UNCHANGED <<keep_archives, gcs_dest, cpu_count, repo_files, parquet_files,
                   tar_files, upload, upvars>>

\* lines 109-110
max_workers == Min(Len(tar_files), Min(cpu_count, 5))

\* lines 105-116: with no archive extract_tar_archives returns at once; else
\* every archive is submitted to the pool
extract_tar_archives ==
    /\ dpc = "extract"
    /\ IF tar_files = <<>>
       THEN /\ dpc' = "upload"
            /\ arch' = arch
       ELSE /\ dpc' = "collect"
            /\ arch' = [i \in Archives |-> [arch[i] EXCEPT !.pc = "queued"]]
    /\ UNCHANGED <<keep_archives, gcs_dest, cpu_count, repo_files, parquet_files,
                   tar_files, upload, upvars>>

\* a worker thread of the pool takes the next queued call
ExtractWorkerStart(i) ==
    /\ i \in Archives
    /\ arch[i].pc = "queued"
    /\ \A k \in Archives : k < i => arch[k].pc # "queued"
    /\ Cardinality(Extracting) < max_workers
    /\ arch' = [arch EXCEPT ![i].pc = "running"]
    /\ UNCHANGED <<dpc, keep_archives, gcs_dest, cpu_count, repo_files,
                   parquet_files, tar_files, upload, upvars>>

\* every member passes the check of lines 94-95
members_within(ms) ==
    \A k \in 1..Len(ms) :
        ensure_path_is_within(extraction_path, join(extraction_path, ms[k]))


\* extract_tar_archive with the archive removed whatever keep_archive says
extract_tar_archive_AlwaysUnlink(i) ==
    /\ i \in Archives
    /\ arch[i].pc = "running"
    /\ IF arch[i].content = 0
       THEN arch' = [arch EXCEPT ![i].pc = "done", ![i].outcome = "skipped"]
       ELSE LET ms == ArchiveKinds[arch[i].content] IN
            \/ arch' = [arch EXCEPT ![i].pc = "done", ![i].outcome = "raised"]
            \/ /\ members_within(ms)
               /\ \/ \E n \in 0..(Len(ms) - 1) :
                       arch' = [arch EXCEPT ![i].pc = "done", ![i].wrote = n,
                                            ![i].outcome = "raised"]
                  \/ arch' = [arch EXCEPT ![i].pc = "done",
                                          ![i].wrote = Len(ms),
                                          ![i].outcome = "ok",
                                          ![i].content = 0]
    /\ UNCHANGED <<dpc, keep_archives, gcs_dest, cpu_count, repo_files,
                   parquet_files, tar_files, upload, upvars>>

\* extract_tar_archive(archive_path, keep_archive, extraction_path), lines
\* 86-99. A missing archive is reported and the call returns (87-89).
\* Otherwise tarfile.open may raise (92); every member is checked before any
\* is extracted, and a member outside the destination raises (93-95);
\* extractall writes the members, or raises having written some of them
\* (96); then the archive is unlinked unless keep_archive (98-99).
extract_tar_archive(i) ==
    /\ i \in Archives
    /\ arch[i].pc = "running"
    /\ IF arch[i].content = 0
       THEN arch' = [arch EXCEPT ![i].pc = "done", ![i].outcome = "skipped"]
       ELSE LET ms == ArchiveKinds[arch[i].content] IN
            \/ arch' = [arch EXCEPT ![i].pc = "done", ![i].outcome = "raised"]
            \/ /\ members_within(ms)
               /\ \/ \E n \in 0..(Len(ms) - 1) :
                       arch' = [arch EXCEPT ![i].pc = "done", ![i].wrote = n,
                                            ![i].outcome = "raised"]
                  \/ arch' = [arch EXCEPT ![i].pc = "done",
                                          ![i].wrote = Len(ms),
                                          ![i].outcome = "ok",
                                          ![i].content =
                                              IF keep_archives THEN @ ELSE 0]
    /\ UNCHANGED <<dpc, keep_archives, gcs_dest, cpu_count, repo_files,
                   parquet_files, tar_files, upload, upvars>>

\* lines 117-121: as_completed yields a future whose call returned
ExtractCollect(i) ==
    /\ dpc = "collect"
    /\ i \in Archives
    /\ arch[i].pc = "done"
    /\ arch[i].outcome \in {"ok", "skipped"}
    /\ arch' = [arch EXCEPT ![i].pc = "collected"]
    /\ UNCHANGED <<dpc, keep_archives, gcs_dest, cpu_count, repo_files,
                   parquet_files, tar_files, upload, upvars>>

\* ExtractCollectRaise with the "raise" of line 124 dropped: the failure is
\* printed and the loop goes on
ExtractCollectRaise_Swallow(i) ==
    /\ dpc = "collect"
    /\ i \in Archives
    /\ arch[i].pc = "done"
    /\ arch[i].outcome = "raised"
    /\ arch' = [arch EXCEPT ![i].pc = "collected"]
    /\ UNCHANGED <<dpc, keep_archives, gcs_dest, cpu_count, repo_files,
                   parquet_files, tar_files, upload, upvars>>

\* lines 119-124: future.result() re-raises the exception of the call; it is
\* printed and raised again, so control leaves the loop
ExtractCollectRaise(i) ==
    /\ dpc = "collect"
    /\ i \in Archives
    /\ arch[i].pc = "done"
    /\ arch[i].outcome = "raised"
    /\ dpc' = "unwinding"
    /\ UNCHANGED <<keep_archives, gcs_dest, cpu_count, repo_files, parquet_files,
                   tar_files, arch, upload, upvars>>

\* line 112: leaving the with block waits for every submitted call; then
\* extract_tar_archives returns, or the exception leaves it and main (187)
ExtractPoolExit ==
    /\ dpc \in {"collect", "unwinding"}
    /\ Archives \subseteq Extracted
    /\ dpc = "collect" => \A i \in Archives : arch[i].pc = "collected"
    /\ dpc' = IF dpc = "collect" THEN "upload" ELSE "crashed"
    /\ UNCHANGED <<keep_archives, gcs_dest, cpu_count, repo_files, parquet_files,
                   tar_files, arch, upload, upvars>>

\* lines 189-194 with run_gcloud_storage_upload, lines 151-157: nothing is
\* run without a destination; subprocess.run(command, check=True) raises on
\* a non-zero exit and when gcloud cannot be started, and main re-raises
run_gcloud_storage_upload ==
    /\ dpc = "upload"
    /\ IF ~gcs_dest
       THEN upload' = upload /\ dpc' = "end"
       ELSE \/ upload' = "rc0" /\ dpc' = "end"
            \/ upload' \in {"rcN", "raised"} /\ dpc' = "crashed"
    /\ UNCHANGED <<keep_archives, gcs_dest, cpu_count, repo_files, parquet_files,
                   tar_files, arch, upvars>>

DownloadNext ==
    \/ ListAndClassify
    \/ download_assets
    \/ extract_tar_archives
    \/ \E i \in 1..MaxRepo : ExtractWorkerStart(i)
    \/ \E i \in 1..MaxRepo : extract_tar_archive(i)
    \/ \E i \in 1..MaxRepo : ExtractCollect(i)
    \/ \E i \in 1..MaxRepo : ExtractCollectRaise(i)
    \/ ExtractPoolExit
    \/ run_gcloud_storage_upload

DownloadSpec == DownloadInit /\ [][DownloadNext]_vars

\* the worker threads are scheduled and the external commands terminate
DownloadFairSpec == DownloadSpec /\ WF_vars(DownloadNext)

(***************************************************************************)
(* Vocabulary of the properties                                            *)
(***************************************************************************)
\* the member, extracted under dest, would land outside dest: its resolved
\* path is neither dest nor a descendant of dest
Outside(dest, name) ==
    LET d == parts(dest)
        t == parts(join(dest, name))
    IN  ~(Len(d) <= Len(t) /\ \A i \in 1..Len(d) : t[i] = d[i])

\* the archive of job j holds a member that escapes the job's workspace
HasEscaping(j) ==
    /\ job[j].unique_id # 0
    /\ \E i \in 1..Len(Members(j)) :
           Outside(temp_dir(job[j].unique_id), Members(j)[i])

\* the latest extraction call of job j
LastAttempt(j) == job[j].attempts[Len(job[j].attempts)]

\* job j holds a workspace: it is past makedirs and before the end of finally
Holding(j) == job[j].pc \in {"primary", "fallback", "publish", "finally"}

\* the call of job j returns a value in this step (it does not raise)
Returns(j) ==
    /\ job[j].pc = "finally"
    /\ job'[j].pc = "done"
    /\ job'[j].ret \in {"True", "False"}

(***************************************************************************)
(* Properties                                                              *)
(***************************************************************************)
\* C1: whenever a call of process_tar_file returns its outcome (True or
\* False, on whichever path it reached the return), the job's workspace
\* directory temp_dir does not exist at that moment.
C1_WorkspaceGoneOnReturn ==
    [][\A j \in Jobs : Returns(j) => job[j].unique_id \notin dirs']_vars

\* a call that created its workspace has returned False, another has
\* returned True, and no workspace directory exists
C1_Witness ==
    /\ dirs = {}
    /\ \E j, k \in Jobs :
          /\ job[j].pc = "done" /\ job[j].ret = "False"
          /\ job[k].pc = "done" /\ job[k].ret = "True"

\* C2 (as claimed): whenever the in-process extractor has run on an archive
\* with an escaping member, it failed and wrote no member of the archive,
\* and the containment test rejects every member that lands outside the
\* workspace.
C2_NoMemberWritten ==
    \A j \in Jobs :
        (HasEscaping(j) /\ Len(job[j].attempts) = 2) =>
            /\ ~LastAttempt(j).ok
            /\ job[j].wrote = 0
            /\ \A i \in 1..Len(Members(j)) :
                 LET dest == temp_dir(job[j].unique_id)
                 IN  Outside(dest, Members(j)[i]) =>
                        ~is_within_directory(dest, join(dest, Members(j)[i]))

\* C3 (as claimed): for an archive with an escaping member the system-tar
\* extraction writes no member, and the job never goes on to publish and
\* to return True on the strength of it.
C3_PrimaryChecksMembers ==
    \A j \in Jobs :
        (HasEscaping(j) /\ Len(job[j].attempts) >= 1) =>
            /\ Len(job[j].attempts) = 1 => job[j].wrote = 0
            /\ job[j].attempts[1].ok =>
                  job[j].pc # "publish" /\ job[j].ret # "True"

OpenWorkspaces == {job[j].unique_id : j \in {k \in Jobs : Holding(k)}} \cap dirs

C5_DistinctWorkspaces ==
    \A j, k \in Jobs :
        (j # k /\ Holding(j) /\ Holding(k)) =>
            job[j].unique_id # job[k].unique_id

\* what the call of job j returns according to its own steps: True exactly
\* when its extraction succeeded and its remote copy ran to completion
OwnOutcome(j) ==
    IF /\ job[j].attempts # <<>>
       /\ LastAttempt(j).ok
       /\ job[j].pub \in {"rc0", "rcN"}
    THEN "True" ELSE "False"

\* the future of job j holds an outcome
Terminal(j) == job[j].pc \in {"done", "collected"}

\* C6: every submitted call is eventually run to an outcome, whatever the
\* other calls did (a failed call cancels nothing), and the value a call
\* returns is decided by its own extraction and publish steps alone; the
\* only other outcome is the exception of its own workspace removal.
C6_FailuresIsolated ==
    /\ [](\A j \in Jobs : job[j].pc = "finally" => job[j].ret = OwnOutcome(j))
    /\ [][\A j \in Jobs : (job[j].pc = "finally" /\ job'[j].pc = "done") =>
              job'[j].ret \in {job[j].ret, "exc"}]_vars
    /\ \A j \in Jobs : (job[j].pc = "queued") ~> Terminal(j)

\* a call has failed and a call started after it is returning True
C6_Witness ==
    \E j, k \in Jobs :
        /\ j < k
        /\ job[j].pc = "done" /\ job[j].ret \in {"False", "exc"}
        /\ job[k].pc = "finally" /\ job[k].ret = "True"

\* C7: the in-process extractor runs exactly when the system-tar extraction
\* failed, at most once, on the same archive and the same workspace; when
\* it fails too the call returns False without another extraction.
C7_FallbackOnce ==
    \A j \in Jobs :
        LET a == job[j].attempts IN
        /\ Len(a) <= 2
        /\ Len(a) >= 1 =>
              /\ a[1].method = "system_tar"
              /\ a[1].tar = j
              /\ a[1].dest = job[j].unique_id
        /\ Len(a) = 2 =>
              /\ ~a[1].ok
              /\ a[2].method = "tarfile"
              /\ a[2].tar = a[1].tar
              /\ a[2].dest = a[1].dest
        /\ (Len(a) = 1 /\ ~a[1].ok) => job[j].pc = "fallback"
        /\ (Len(a) = 2 /\ ~a[2].ok) =>
              job[j].pc = "finally" /\ job[j].ret = "False"

\* both extractions of a call have failed and it is returning False, while
\* the fallback of another call has succeeded
C7_Witness ==
    \E j, k \in Jobs :
        /\ Len(job[j].attempts) = 2 /\ ~job[j].attempts[2].ok
        /\ job[j].ret = "False"
        /\ Len(job[k].attempts) = 2 /\ job[k].attempts[2].ok

\* C8 (as claimed): a call whose remote copy exited non-zero returns False.
C8_NonZeroCopyFails ==
    \A j \in Jobs : job[j].pub = "rcN" => job[j].ret = "False"

\* C9 (as claimed): no call raises, main never leaves the collection loop
\* by an exception, and once archives have been submitted main stops only
\* at the summary with every outcome collected.
C9_AlwaysReachesSummary ==
    /\ \A j \in Jobs : job[j].ret # "exc"
    /\ mpc \notin {"unwinding", "crashed"}
    /\ mpc \in {"collect", "cleanup", "summary", "unwinding", "crashed"} =>
          \/ ENABLED Next
          \/ mpc = "summary" /\ \A j \in Submitted : job[j].pc = "collected"

\* C10: without gcloud main stops with the fatal error before anything
\* else: no archive is listed, no call is submitted, no workspace and no
\* staging root is created.
C10_GcloudChecked ==
    ~gcloud =>
        /\ mpc \in {"start", "fatal"}
        /\ files = <<>>
        /\ Submitted = {}
        /\ dirs = {}
        /\ ~base

\* main has raised the fatal error of a missing gcloud
C10_Witness == ~gcloud /\ mpc = "fatal"

\* C11 (as claimed): a run that discovers no archive ends in an error: it
\* never ends by a normal return, and it submits no call and creates no
\* workspace.
C11_NoMatchAborts ==
    (mpc \notin {"start", "setup", "scan"} /\ files = <<>>) =>
        /\ mpc = "fatal"
        /\ Submitted = {}
        /\ dirs = {}

\* C12: within a call the steps come in the order makedirs, extraction,
\* upload, removal of the workspace, and main counts the outcome after the
\* call has ended: an extraction is made only by a call that is past
\* makedirs, the upload is entered and made only on a successful extraction,
\* the removal comes after them, and an outcome is counted only for a call
\* that has returned, its workspace then being gone (C1).
C12_StepOrder ==
    /\ [](\A j \in Jobs :
            /\ job[j].pc = "publish" =>
                  job[j].attempts # <<>> /\ LastAttempt(j).ok
            /\ job[j].pub # "none" =>
                  /\ job[j].attempts # <<>> /\ LastAttempt(j).ok
                  /\ job[j].pc = "finally"
            /\ job[j].pc = "mkdir" => job[j].attempts = <<>>)
    /\ [][\A j \in Jobs :
            /\ job'[j].attempts # job[j].attempts /\ job'[j].attempts # <<>> =>
                  job[j].pc \in {"primary", "fallback"}
            /\ job'[j].pub # job[j].pub /\ job'[j].pub # "none" =>
                  job[j].pc = "publish" /\ job'[j].pc = "finally"
            /\ job[j].pc = "finally" /\ job'[j].pc # "finally" =>
                  job'[j].pc = "done"
            /\ job'[j].pc = "collected" /\ job[j].pc # "collected" =>
                  /\ job[j].pc = "done" /\ job[j].ret \in {"True", "False"}
                  /\ successful' + failed' = successful + failed + 1]_vars

\* a call whose fallback extraction succeeded has made its upload and is at
\* the removal of its workspace, while the outcome of another has been counted
C12_Witness ==
    \E j, k \in Jobs :
        /\ job[j].pc = "finally" /\ job[j].pub = "rc0"
        /\ Len(job[j].attempts) = 2
        /\ job[k].pc = "collected"

\* C13: the staging root exists as long as a submitted call is queued or
\* running, and the step that removes it is taken only when every submitted
\* call has ended.
C13_RootOutlivesJobs ==
    /\ [](\A j \in Jobs : (job[j].pc = "queued" \/ j \in Running) => base)
    /\ [][(base /\ ~base') => Submitted \subseteq Done]_vars

\* the staging root has been removed after two calls ran
C13_Witness ==
    /\ mpc = "summary"
    /\ ~base
    /\ Cardinality(Submitted) >= 2

\* C14 (as claimed): when main has ended, by return or by an exception,
\* after creating the staging root, the staging root does not exist.
C14_RootRemovedAtEnd ==
    mpc \in {"returned", "summary", "crashed"} => ~base

\* C15 (as claimed): a call whose makedirs failed, or whose removal of the
\* workspace failed, ends with the outcome False.
C15_WorkspaceFailureCaught ==
    [][\A j \in Jobs :
         /\ (job[j].pc = "mkdir" /\ job'[j].pc = "finally") =>
               job'[j].ret = "False"
         /\ (/\ job[j].pc = "finally" /\ job'[j].pc = "done"
             /\ job[j].unique_id \in dirs') =>
               job'[j].ret = "False"]_vars

\* how far the call of a job has come
PcRank(pc) ==
    CASE pc = "idle" -> 0 [] pc = "queued" -> 1 [] pc = "mkdir" -> 2
      [] pc = "primary" -> 3 [] pc = "fallback" -> 4 [] pc = "publish" -> 5
      [] pc = "finally" -> 6 [] pc = "done" -> 7 [] pc = "collected" -> 8

\* C16: a call is run once and yields one outcome: no call ever goes
\* back to an earlier step, a collected future does not change, a workspace
\* name is drawn once per call, the two counters add
\* up to the number of outcomes collected so far and, from the end of the
\* collection loop on, to the number of calls submitted.
C16_OneOutcomePerJob ==
    /\ [](/\ successful + failed =
               Cardinality({j \in Jobs : job[j].pc = "collected"})
          /\ mpc \in {"cleanup", "summary"} =>
               /\ successful + failed = Cardinality(Submitted)
               /\ successful + failed = Len(files))
    /\ [][\A j \in Jobs :
            /\ PcRank(job'[j].pc) >= PcRank(job[j].pc)
            /\ job[j].pc = "collected" => job'[j] = job[j]
            /\ job[j].unique_id # 0 =>
                  job'[j].unique_id \in {0, job[j].unique_id}]_vars

\* the summary is reached with one call counted successful and one failed
C16_Witness ==
    /\ mpc = "summary"
    /\ successful = 1
    /\ failed = 1

\* C18 (as claimed): with DRY_RUN set exactly one call is submitted and
\* total_files is the number of calls submitted.
C18_DryRunFirstOnly ==
    (DRY_RUN /\ mpc \in {"collect", "unwinding", "cleanup", "summary", "crashed"}) =>
        /\ Cardinality(Submitted) = 1
        /\ total_files = Cardinality(Submitted)

\* x is an entry of the list l
InList(l, x) == \E k \in 1..Len(l) : l[k] = x

\* the entries of l come in the order they have in repo
InOrderOf(l, repo) ==
    \A x, y \in 1..Len(l) :
        x < y => \E u, v \in 1..Len(repo) :
                    u < v /\ repo[u] = l[x] /\ repo[v] = l[y]

\* the last two suffixes of p joined, or its final suffix alone, is a tar
\* suffix
TarNamed(p) ==
    LET sfx == suffixes(p) IN
    /\ sfx # <<>>
    /\ \/ sfx[Len(sfx)] \in TAR_SUFFIXES
       \/ Len(sfx) >= 2 /\ sfx[Len(sfx) - 1] \o sfx[Len(sfx)] \in TAR_SUFFIXES

\* C17 (as claimed): after classify_files no file is in both lists, a file
\* without a suffix is in neither, every file named as a tar archive is in
\* the tar list, and each list keeps the order of the input.
C17_ClassifyBySuffix ==
    dpc # "start" =>
        /\ \A k \in 1..Len(repo_files) :
             LET f == repo_files[k] IN
             /\ ~(InList(parquet_files, f) /\ InList(tar_files, f))
             /\ suffixes(f) = <<>> =>
                   ~InList(parquet_files, f) /\ ~InList(tar_files, f)
             /\ TarNamed(f) => InList(tar_files, f)
        /\ \A k \in 1..Len(parquet_files) : InList(repo_files, parquet_files[k])
        /\ \A k \in 1..Len(tar_files) : InList(repo_files, tar_files[k])
        /\ InOrderOf(parquet_files, repo_files)
        /\ InOrderOf(tar_files, repo_files)

\* the call extract_tar_archive of archive i ends in this step
ExtractEnds(i) ==
    /\ i \in Archives
    /\ arch[i].pc = "running"
    /\ arch'[i].pc = "done"

\* C19: the call extract_tar_archive removes its archive exactly when
\* keep_archive is false, every member passed the containment check and
\* every member was extracted; with keep_archive the archive stays, a call
\* that raises leaves the archive as it was, and no other step of the run
\* touches an archive.
C19_ArchiveDeletedIff ==
    [][\A i \in Archives :
         LET before == arch[i].content
             after == arch'[i].content
         IN  IF ExtractEnds(i)
             THEN /\ after \in {before, 0}
                  /\ (before > 0 /\ after = 0) <=>
                       /\ before > 0
                       /\ ~keep_archives
                       /\ arch'[i].outcome = "ok"
                       /\ members_within(ArchiveKinds[before])
                       /\ arch'[i].wrote = Len(ArchiveKinds[before])
                  /\ keep_archives => after = before
                  /\ arch'[i].outcome = "raised" => after = before
             ELSE Len(arch') = Len(arch) => after = before]_vars

\* without keep_archive, one archive has been extracted and removed and
\* another, whose extraction raised, is still on disk
C19_Witness ==
    /\ ~keep_archives
    /\ \E i, k \in Archives :
          /\ arch[i].outcome = "ok" /\ arch[i].content = 0
          /\ arch[k].outcome = "raised" /\ arch[k].content # 0

\* an extraction of the run has raised
SomeExtractionRaised == \E i \in Archives : arch[i].outcome = "raised"

\* C20: the upload of main.py is reached and run only when every submitted
\* extraction has ended and been collected without an exception; once an
\* extraction has raised the upload is never run, the run ends by the
\* exception, and it does so only when every submitted extraction has ended.
C20_UploadAfterExtractions ==
    /\ []((upload # "none" \/ dpc \in {"upload", "end"}) =>
             \A i \in Archives :
                 arch[i].pc = "collected" /\ arch[i].outcome # "raised")
    /\ [](SomeExtractionRaised =>
             /\ upload = "none"
             /\ dpc \in {"collect", "unwinding", "crashed"}
             /\ dpc = "crashed" => Archives \subseteq Extracted)
    /\ SomeExtractionRaised ~> (dpc = "crashed" /\ Archives \subseteq Extracted)

\* the run has ended by the exception of one extraction, another extraction
\* has run to its end after it without being collected, and no upload ran
C20_Witness ==
    /\ dpc = "crashed"
    /\ upload = "none"
    /\ \E i, k \in Archives :
          /\ arch[i].outcome = "raised"
          /\ arch[k].pc = "done" /\ arch[k].outcome = "ok"

====
